---- MODULE Spec2Model ----
(***************************************************************************)
(* A model of the two harvesting scripts of chudst/edeska-jmk:             *)
(*   src/edeska_jmk.py            (site "jmk",  Jihomoravsky kraj)         *)
(*   src/magistrat_mesta_brna.py  (site "brno", Magistrat mesta Brna)      *)
(* One run of main() is a state machine over the position of the single    *)
(* sequential worker (pc).  Text is a sequence of one-character strings.   *)
(***************************************************************************)
EXTENDS Integers, Sequences, FiniteSets, TLC

\* ------------------------------------------------------------ constants
\* Retry budget of get_page / post_page / download_file.
MAX_RETRIES == 3
\* Rows the Brno site serves per list page; the offset advances by it.
PAGE_SIZE == 25
\* The shortest random_pause, in seconds.
PAUSE_MIN == 2

\* ------------------------------------------------------------ bounds
\* Rows (notices) the board lists in all, over all its pages.
MaxNotices == 3
\* Attachments the board's notices hold in all.
MaxAttachments == 2

\* ------------------------------------------------------------ text
Digits == <<"0", "1", "2", "3", "4", "5", "6", "7", "8", "9">>

\* str(n) of a natural number
RECURSIVE str(_)
str(n) == IF n < 10 THEN <<Digits[n + 1]>> ELSE str(n \div 10) \o <<Digits[(n % 10) + 1]>>

\* n printed in exactly w digits (strftime's %Y, %m, %d)
RECURSIVE zfill(_, _)
zfill(n, w) == IF w = 0 THEN <<>> ELSE zfill(n \div 10, w - 1) \o <<Digits[(n % 10) + 1]>>

\* '.' in filename
HasDot(s) == \E i \in 1..Len(s) : s[i] = "."

\* position of the first '.', where split('.', 1) would cut
FirstDot(s) == CHOOSE i \in 1..Len(s) : s[i] = "." /\ \A j \in 1..(i - 1) : s[j] # "."

\* position of the last '.', where rsplit('.', 1) cuts
LastDot(s) == CHOOSE i \in 1..Len(s) : s[i] = "." /\ \A j \in (i + 1)..Len(s) : s[j] # "."

\* filename.rsplit('.', 1)[0], or the whole name when it has no dot
rsplit_base(s) == IF HasDot(s) THEN SubSeq(s, 1, LastDot(s) - 1) ELSE s

\* '.' + filename.rsplit('.', 1)[1], or '' when it has no dot
rsplit_ext(s) == IF HasDot(s) THEN SubSeq(s, LastDot(s), Len(s)) ELSE <<>>

\* ------------------------------------------------------------ dates
\* A date text dd.mm.yyyy that matches \d{2}\.\d{2}\.\d{4} is the triple <<dd, mm, yyyy>>.
IsLeap(y) == (y % 4 = 0 /\ y % 100 # 0) \/ y % 400 = 0

DaysIn(m, y) ==
    IF m = 2 THEN (IF IsLeap(y) THEN 29 ELSE 28)
    ELSE IF m \in {4, 6, 9, 11} THEN 30 ELSE 31

\* datetime.strptime(date_str, "%d.%m.%Y") raises ValueError unless this holds
IsCalendarDate(t) ==
    /\ t[2] \in 1..12
    /\ t[3] \in 1..9999
    /\ t[1] \in 1..DaysIn(t[2], t[3])

ValueError == -1

\* parse_date_cz: the date as a number ordered like datetime, or ValueError
parse_date_cz(t) == IF IsCalendarDate(t) THEN t[3] * 10000 + t[2] * 100 + t[1] ELSE ValueError

\* format_date_iso: dd.mm.yyyy -> yyyy-mm-dd (defined where parse_date_cz does not raise)
format_date_iso(t) == zfill(t[3], 4) \o <<"-">> \o zfill(t[2], 2) \o <<"-">> \o zfill(t[1], 2)

\* ------------------------------------------------------------ file names
\* get_available_filename: the while loop, from new_name and counter
RECURSIVE available_loop(_, _, _, _, _)
available_loop(directory, base, ext, new_name, counter) ==
    IF new_name \in directory
    THEN available_loop(directory, base, ext, base \o <<"_">> \o str(counter) \o ext, counter + 1)
    ELSE new_name

\* the desired name taken as it is, the directory not looked at
get_available_filename_as_given(directory, filename) == filename

\* the name numbered once, without the loop: "if exists" for "while exists"
get_available_filename_once(directory, filename) ==
    IF filename \in directory
    THEN rsplit_base(filename) \o <<"_">> \o str(1) \o rsplit_ext(filename)
    ELSE filename

get_available_filename(directory, filename) ==
    available_loop(directory, rsplit_base(filename), rsplit_ext(filename), filename, 1)

\* Characters.  A letter with a combining mark is written as the base letter
\* followed by "^" in one token ("a^" is a-acute); NFD splits it and the mark
\* (category Mn) is dropped.  "%" stands for any other character outside
\* [A-Za-z0-9_-] that NFD leaves alone.
Accented == {"a^", "z^"}
Plain == {"a", "b", "p", "z", "1", "2", "_", "-"}

nfd_strip(c) == IF c = "a^" THEN "a" ELSE IF c = "z^" THEN "z" ELSE c

\* remove_diacritics
remove_diacritics(s) == [i \in 1..Len(s) |-> nfd_strip(s[i])]

\* name.replace(' ', '_')
replace_space(s) == [i \in 1..Len(s) |-> IF s[i] = " " THEN "_" ELSE s[i]]

\* s without its first character that fails keep: re.sub with count=1
filter_chars_once(s, keep) ==
    LET bad == {i \in 1..Len(s) : s[i] \notin keep}
    IN IF bad = {} THEN s
       ELSE LET k == CHOOSE i \in bad : \A j \in bad : i <= j
            IN SubSeq(s, 1, k - 1) \o SubSeq(s, k + 1, Len(s))

\* the characters of s that satisfy keep, in order
RECURSIVE filter_chars(_, _)
filter_chars(s, keep) ==
    IF s = <<>> THEN <<>>
    ELSE (IF Head(s) \in keep THEN <<Head(s)>> ELSE <<>>) \o filter_chars(Tail(s), keep)

AllChars == Plain \cup Accented \cup {" ", "'", ".", "%"}

\* sanitize_filename
sanitize_filename(filename) ==
    IF filename = <<>> THEN filename
    ELSE LET name0 == rsplit_base(filename)
             ext0 == rsplit_ext(filename)
             name1 == remove_diacritics(name0)
             ext == remove_diacritics(ext0)
             name2 == replace_space(name1)
             name3 == filter_chars(name2, AllChars \ {"'"})
             name4 == filter_chars(name3, Plain)
         IN name4 \o ext

\* ------------------------------------------------------------ logging
\* The run log L = [error_lines, HAS_ERROR]: LOG_LINES, kept as whether a line of
\* level ERROR has been appended to it, and the flag HAS_ERROR.
Levels == {"INFO", "WARN", "ERROR"}

\* log without its "global HAS_ERROR": the line is appended, the flag stays
log_unflagged(lg, level) ==
    [error_lines |-> lg.error_lines \/ level = "ERROR", HAS_ERROR |-> lg.HAS_ERROR]

\* log(msg, level)
log(lg, level) ==
    [error_lines |-> lg.error_lines \/ level = "ERROR",
     HAS_ERROR |-> IF level = "ERROR" THEN TRUE ELSE lg.HAS_ERROR]

\* The log with LOG_LINES in full, each line kept as its level:
\* [LOG_LINES, HAS_ERROR].
\* log with the flag following the last line only
log_append_last_level(lg, level) ==
    [LOG_LINES |-> Append(lg.LOG_LINES, level), HAS_ERROR |-> level = "ERROR"]

\* log(msg, level): LOG_LINES.append(line); if level == "ERROR": HAS_ERROR = True
log_append(lg, level) ==
    [LOG_LINES |-> Append(lg.LOG_LINES, level),
     HAS_ERROR |-> IF level = "ERROR" THEN TRUE ELSE lg.HAS_ERROR]

\* the log in full seen as L: does it hold an ERROR line, and the flag
log_view(lg) ==
    [error_lines |-> \E i \in 1..Len(lg.LOG_LINES) : lg.LOG_LINES[i] = "ERROR",
     HAS_ERROR |-> lg.HAS_ERROR]

\* consecutive log calls, in order
RECURSIVE log_all(_, _)
log_all(lg, lv) == IF lv = <<>> THEN lg ELSE log_all(log(lg, Head(lv)), Tail(lv))

\* ------------------------------------------------------------ fetcher
\* What one network attempt can bring back.
\*   "ok"     200 with the page asked for
\*   "maint"  200 with a maintenance-page marker in the body
\*   "err"    a status other than 200, a timeout or a transport exception
PageResponses == {"ok", "maint", "err"}
\* and for a streamed download
\*   "file"        200 with the attachment
\*   "gone"        200 text/html, no Content-Disposition, "dokument ... dispozici" in the body
\*   "maint"       200 text/html, no Content-Disposition, a maintenance marker in the body
\*   "stream_err"  200, then an exception while the body is written to the opened file
FileResponses == {"file", "gone", "maint", "err", "stream_err"}

\* get_page / post_page: does this response make the attempt raise?
page_attempt_raises(s, r) ==
    IF s = "jmk" THEN r # "ok"      \* status and maintenance markers are checked
    ELSE r = "err"                  \* Brno checks the status only

\* download_file without the look for the maintenance markers
file_attempt_unchecked(s, r) ==
    CASE r = "err" -> "raise"
      [] r = "stream_err" -> "raise"
      [] r = "gone" -> IF s = "jmk" THEN "soft" ELSE "written"
      [] OTHER -> "written"

\* download_file: the outcome of one attempt before the except clause:
\* "raise", "soft" (return False at once), or "written" (return True)
file_attempt(s, r) ==
    CASE r = "err" -> "raise"
      [] r = "maint" -> "raise"
      [] r = "stream_err" -> "raise"
      [] r = "gone" -> IF s = "jmk" THEN "soft" ELSE "written"
      [] OTHER -> "written"

\* an attempt that never leaves a file at save_path
file_attempt_creates_nothing(s, r) == FALSE

\* does the attempt leave a file at save_path? (open(save_path, "wb") was reached)
file_attempt_creates(s, r) == r = "stream_err" \/ file_attempt(s, r) = "written"

\* the budget test off by one
may_retry_inclusive(retry) == retry <= MAX_RETRIES

\* the except clause: retry while the budget lasts
may_retry(retry) == retry < MAX_RETRIES

\* A value of a hidden form field is a number: 0 is the empty string, k > 0
\* the value the site renders into list page k.  NoField: the html has no
\* such field (the re.search finds no match).
NoField == -1

\* JMKScraper.__init__: self.viewstate = "", self.viewstate_generator = ""
NewScraper == [viewstate |-> 0, viewstate_generator |-> 0]

\* The hidden fields of list page k as the site renders it: __VIEWSTATE
\* changes with every page; __VIEWSTATEGENERATOR is rendered on the first
\* page and left out of the pages answered to a POST.
HiddenFields(k) ==
    [viewstate |-> k, viewstate_generator |-> IF k = 1 THEN 1 ELSE NoField]

\* the fields stored whether or not the html holds them
extract_viewstate_unmatched(sc, html) ==
    [viewstate |-> html.viewstate, viewstate_generator |-> html.viewstate_generator]

\* _extract_viewstate(html): each field is stored if its pattern matches
extract_viewstate(sc, html) ==
    [viewstate |-> IF html.viewstate # NoField THEN html.viewstate ELSE sc.viewstate,
     viewstate_generator |-> IF html.viewstate_generator # NoField
                             THEN html.viewstate_generator ELSE sc.viewstate_generator]

\* no form data: a GET, a download, and brno's POST, whose fields are not modelled
NoData == [EVENTARGUMENT |-> 0, VIEWSTATE |-> 0, VIEWSTATEGENERATOR |-> 0]

NoCall ==
    [fn |-> "none", what |-> "none", retry |-> 0, attempts |-> 0, warns |-> 0,
     sleeps |-> 0, errors |-> 0, result |-> "none", soft |-> FALSE, body |-> "none",
     data |-> NoData]

\* a fresh call, retry = 0
NewCall(fn, what) == [NoCall EXCEPT !.fn = fn, !.what = what, !.result = "pending"]

\* the except clause of all three functions, on the call record
on_raise(c) ==
    IF may_retry(c.retry)
    THEN [c EXCEPT !.warns = @ + 1, !.sleeps = @ + 1, !.retry = @ + 1]
    ELSE [c EXCEPT !.errors = @ + 1, !.result = "fail"]

\* ------------------------------------------------------------ publisher
\* upload_to_ftp: with the configuration check and the outcome of the transfer
\* ("ok" or "exc"), the value returned and the level logged
ftp_configured(cfg, remote_path_set) == cfg.cred /\ remote_path_set

upload_to_ftp(cfg, remote_path_set, outcome) ==
    IF ~ftp_configured(cfg, remote_path_set) THEN [ok |-> FALSE, lv |-> <<"WARN">>]
    ELSE IF outcome = "ok" THEN [ok |-> TRUE, lv |-> <<>>]
    ELSE [ok |-> FALSE, lv |-> <<"ERROR">>]

\* upload_file_to_ftp: remote path FTP_PATH
upload_file_to_ftp(cfg, outcome) == upload_to_ftp(cfg, cfg.FTP_PATH, outcome)

\* upload_sql_to_ftp: remote path FTP_PATH.rsplit('/', 2)[0], "" when FTP_PATH is ""
upload_sql_to_ftp(cfg, outcome) == upload_to_ftp(cfg, cfg.FTP_PATH, outcome)

\* upload_log_to_ftp: FTP_LOGS_PATH, else derived from FTP_PATH
upload_log_to_ftp(cfg, logs_path_set, outcome) ==
    upload_to_ftp(cfg, logs_path_set \/ cfg.FTP_PATH, outcome)

FtpOutcomes == {"ok", "exc"}

\* the outcomes of the transfer upload_to_ftp would make: none is made, and
\* the outcome is immaterial, unless the upload is configured
transfers(cfg, remote_path_set) ==
    IF ftp_configured(cfg, remote_path_set) THEN FtpOutcomes ELSE {"ok"}

\* ------------------------------------------------------------ date filter
\* the comparison with to_date turned round
is_newer_reversed(item_date, to) == item_date < to

\* if item_date > to_date: continue
is_newer(item_date, to) == item_date > to

\* the operands of the comparison with from_date swapped
is_older_swapped(item_date, from) == from < item_date

\* if item_date < from_date: finished = True; break
is_older(item_date, from) == item_date < from

\* ------------------------------------------------------------ the site
\* The days of May 2024 a notice is dated at.
Days == {1, 2, 3}

\* Date texts of the rows main gets to see, all calendar dates.
RowDates == {<<d, 5, 2024>> : d \in Days}

\* 31.02.2024 matches \d{2}\.\d{2}\.\d{4} and is no calendar date.
NoDate == <<31, 2, 2024>>

\* The sequences over S with lo..hi elements.
SeqsOf(S, lo, hi) == UNION {[1..n -> S] : n \in lo..hi}

\* sorted descending by publication date, as the site lists its notices
SortedDesc(rows) ==
    \A i \in 1..Len(rows) : \A j \in i..Len(rows) :
        parse_date_cz(rows[i]) >= parse_date_cz(rows[j])

\* all rows of a sequence of pages, in the order the site lists them
RECURSIVE Rows(_)
Rows(b) == IF b = <<>> THEN <<>> ELSE Head(b) \o Rows(Tail(b))

\* The boards of at most n rows: list pages (each the date texts of its rows
\* that carry the required date and link), first page first.
RECURSIVE BoardsOf(_)
BoardsOf(n) ==
    {<<>>} \cup UNION {{<<p>> \o b : b \in BoardsOf(n - Len(p))} :
                          p \in SeqsOf(RowDates, 1, n)}

Boards == {b \in BoardsOf(MaxNotices) : SortedDesc(Rows(b))}

\* Names of attachments as the site shows them.
AttachNames == {<<"a^", ".", "p">>}

\* The attachments of one notice.
FileLists(n) == SeqsOf(AttachNames, 0, n)

\* The total N in "1 - 25 z N" of the first Brno page: not stated (0 stands for
\* it), or the number of rows of a board of so many full pages.
BoardCounts(b) == {0, Len(b) * PAGE_SIZE}

\* FROM_DATE and TO_DATE: the two module constants, here the same day as in
\* mode 'yesterday', with a day of the board before it and one after it.
FROM_DATE == <<2, 5, 2024>>
TO_DATE == <<2, 5, 2024>>

\* FTP_HOST, FTP_USER and FTP_PASS all set (cred); FTP_PATH set.  The
\* environment is fixed for the run; the model fixes it at the first upload,
\* where it is first read (read).
FtpConfigs == {c \in [read : {TRUE}, cred : BOOLEAN, FTP_PATH : BOOLEAN] : c.cred \/ c.FTP_PATH}

\* the environment before anything has read it
Unread == [read |-> FALSE, cred |-> FALSE, FTP_PATH |-> FALSE]

\* what os.environ can hold, given what has been read of it
environ(f) == IF f.read THEN {f} ELSE FtpConfigs

InRange(d, from, to) == from <= d /\ d <= to

\* ------------------------------------------------------------ state
VARIABLES
    site,           \* which script runs: "jmk" or "brno"
    ftp,            \* the FTP configuration read from the environment
    from_date,      \* main: from_date
    to_date,        \* main: to_date
    board,          \* the list pages the site has not served yet, next page first
    save_dir,       \* the names present in SAVE_DIR
    pc,             \* where main() is
    page,           \* jmk: page
    first,          \* brno: first
    total_count,    \* brno: total_count
    finished,       \* main: finished
    items,          \* main: items, the parsed rows of the current page
    idx,            \* position of the for loop over items
    files,          \* main: files of the current notice
    fidx,           \* position of the for loop over files
    final_name,     \* main: final_name of the current attachment
    stats,          \* main: stats
    L,              \* LOG_LINES (does it hold an ERROR line) and HAS_ERROR
    statements,     \* sql_import.statements
    logy,           \* whether sql_logy.save wrote the log record, and its has_error
    scraper,        \* jmk: the scraper's viewstate and viewstate_generator
    call,           \* the get_page / post_page / download_file call in progress or just ended
    exit_status,    \* -1 while running, then the status the process exits with
    g               \* history of the run, read by the properties only

vars == <<site, ftp, from_date, to_date, board, save_dir, pc, page, first,
          total_count, finished, items, idx, files, fidx, final_name, stats, L,
          statements, logy, scraper, call, exit_status, g>>

env == <<site, from_date, to_date>>
loop_vars == <<page, first, total_count, finished, items, idx, files, fidx, final_name>>

\* main as it starts, whatever SAVE_DIR holds
Boot ==
    /\ site \in {"jmk", "brno"}
    /\ ftp = Unread
    /\ from_date = parse_date_cz(FROM_DATE)
    /\ to_date = parse_date_cz(TO_DATE)
    /\ board \in Boards
    /\ pc = "start"
    /\ page = 1
    /\ first = 0
    /\ total_count = 0
    /\ finished = FALSE
    /\ items = <<>>
    /\ idx = 0
    /\ files = <<>>
    /\ fidx = 0
    /\ final_name = <<>>
    /\ stats = [pages_processed |-> 0, items_processed |-> 0, files_downloaded |-> 0,
                files_uploaded |-> 0, files_failed |-> 0]
    /\ L = [error_lines |-> FALSE, HAS_ERROR |-> FALSE]
    /\ statements = <<>>
    /\ logy = [saved |-> FALSE, has_error |-> FALSE]
    /\ scraper = NewScraper
    /\ call = NoCall
    /\ exit_status = -1
    /\ g = [served |-> 0, listed_in_range |-> 0, attach_listed |-> 0, touched |-> {},
            list_failed |-> FALSE, list_maint |-> FALSE, detail_failed |-> FALSE,
            last_op |-> "none", unpaused |-> FALSE, import_saved |-> FALSE,
            import_upload |-> "none", no_import_line |-> FALSE,
            skipped_newer |-> FALSE, publish_attempts |-> 0]

\* the first run: SAVE_DIR is empty
Init == Boot /\ save_dir = {}

\* ------------------------------------------------------------ helpers of main
\* the pause left out
not_paused(h) == h

\* random_pause(), noted in the history
paused(h) == [h EXCEPT !.last_op = "pause"]

\* a fetch issued by main (list page, detail page, attachment), noted in the history
fetched(h) ==
    [h EXCEPT !.unpaused = @ \/ h.last_op = "fetch", !.last_op = "fetch"]

\* the number of the list page main asks for: jmk counts pages from 1,
\* brno sends the offset first = 0, PAGE_SIZE, 2 * PAGE_SIZE, ...
RequestedPage == IF site = "jmk" THEN page ELSE (first \div PAGE_SIZE) + 1

\* the rows the site serves for that page: none beyond its last page
ServedRows ==
    LET k == RequestedPage - g.served
    IN IF k \in 1..Len(board) THEN board[k] ELSE <<>>

\* the pages still unserved after that request
Unserved ==
    LET k == RequestedPage - g.served
    IN IF k \in 1..Len(board) THEN SubSeq(board, k + 1, Len(board)) ELSE <<>>

\* parse_total_count: the N of "1 - 25 z N" (stated), 0 when the page has none
parse_total_count(body, stated) == IF body = "ok" THEN stated ELSE 0

\* the list-page request of get_list_page: GET for the first page, POST after it
list_fn == IF (site = "jmk" /\ page = 1) \/ (site = "brno" /\ first = 0)
           THEN "get_page" ELSE "post_page"

\* get_list_page: the form data of the POST for a later page of jmk
list_data == IF site = "jmk" /\ page > 1
             THEN [EVENTARGUMENT |-> page, VIEWSTATE |-> scraper.viewstate,
                   VIEWSTATEGENERATOR |-> scraper.viewstate_generator]
             ELSE NoData

\* stats["..."] += 1
bump(st, key) == [st EXCEPT ![key] = @ + 1]

\* the record sql_import.add_file appends: nazev_souboru, datum_stazeni
add_file(stmts, nazev_souboru, date_iso) ==
    Append(stmts, [nazev_souboru |-> nazev_souboru,
                   datum_stazeni |-> date_iso \o <<" ", "0", "0", ":", "0", "0", ":", "0", "0">>])

\* new_name = f"{item['date_iso']}_{sanitized_name}"
new_name(date_iso, original_name) == date_iso \o <<"_">> \o sanitize_filename(original_name)

\* ------------------------------------------------------------ main
\* main, up to the loop: init_logging and the three opening log lines
Start ==
    /\ pc = "start"
    /\ L' = log_all(L, <<"INFO", "INFO", "INFO">>)
    /\ pc' = "loop"
    /\ UNCHANGED <<env, scraper, ftp, board, save_dir, loop_vars, stats, statements, logy, call,
                   exit_status, g>>

\* the loop written as "while True": the flag set at the boundary is not read
loop_continues_always(fin) == TRUE

\* while not finished
loop_continues(fin) == ~fin

\* while not finished: log, scraper.get_list_page(...)
LoopHead ==
    /\ pc = "loop"
    /\ IF ~loop_continues(finished)
       THEN /\ pc' = "summary"
            /\ UNCHANGED <<L, call, g>>
       ELSE /\ L' = log(L, "INFO")
            /\ call' = [NewCall(list_fn, "list") EXCEPT !.data = list_data]
            /\ g' = fetched(g)
            /\ pc' = "list_wait"
    /\ UNCHANGED <<env, scraper, ftp, board, save_dir, loop_vars, stats, statements, logy, exit_status>>

\* one attempt of get_page / post_page: the try block and the except clause
PageAttempt ==
    /\ call.result = "pending"
    /\ call.fn \in {"get_page", "post_page"}
    /\ \E r \in PageResponses :
        LET c1 == [call EXCEPT !.attempts = @ + 1]
            c2 == IF page_attempt_raises(site, r) THEN on_raise(c1)
                  ELSE [c1 EXCEPT !.result = "ok", !.body = r]
        IN /\ call' = c2
           /\ L' = IF c2.warns > c1.warns THEN log(L, "WARN")
                   ELSE IF c2.errors > c1.errors THEN log(L, "ERROR")
                   ELSE L
    /\ UNCHANGED <<env, scraper, ftp, board, save_dir, pc, loop_vars, stats, statements, logy,
                   exit_status, g>>

\* one attempt of download_file(file_url, save_path) that the site answers with r
FileAttemptWith(r) ==
    /\ call.result = "pending"
    /\ call.fn = "download_file"
    /\ LET c1 == [call EXCEPT !.attempts = @ + 1]
           out == file_attempt(site, r)
           c2 == CASE out = "raise" -> on_raise(c1)
                   [] out = "soft" -> [c1 EXCEPT !.result = "fail", !.soft = TRUE, !.warns = @ + 1]
                   [] OTHER -> [c1 EXCEPT !.result = "ok", !.body = r]
       IN /\ call' = c2
          /\ save_dir' = IF file_attempt_creates(site, r)
                         THEN save_dir \cup {final_name} ELSE save_dir
          /\ L' = IF c2.warns > c1.warns THEN log(L, "WARN")
                  ELSE IF c2.errors > c1.errors THEN log(L, "ERROR")
                  ELSE L
    /\ UNCHANGED <<env, scraper, ftp, board, pc, loop_vars, stats, statements, logy, exit_status, g>>

\* one attempt of download_file(file_url, save_path)
FileAttempt == \E r \in FileResponses : FileAttemptWith(r)

\* the empty page logged as an error
on_empty_page_as_error(lg) == log(lg, "ERROR")

\* if not items: log(...) (the line before the break)
on_empty_page(lg) == log(lg, "INFO")

\* main after get_list_page returned: the fetch failure, parse_total_count,
\* parse_list_page, the empty page
ListDone ==
    /\ pc = "list_wait"
    /\ call.result \in {"ok", "fail"}
    /\ call' = NoCall
    /\ scraper' = IF site = "jmk" /\ call.result = "ok"
                  THEN \* if html: self._extract_viewstate(html)
                       extract_viewstate(scraper, HiddenFields(RequestedPage))
                  ELSE scraper
    /\ IF call.result = "fail"
       THEN \* if not html: log(..., "ERROR"); break
            /\ L' = log(L, "ERROR")
            /\ g' = [g EXCEPT !.list_failed = TRUE]
            /\ pc' = "summary"
            /\ UNCHANGED <<board, total_count, items, idx, stats, exit_status>>
       ELSE LET rows == IF call.body = "ok" THEN ServedRows ELSE <<>>
                L1 == IF site = "brno" /\ first = 0 THEN log(L, "INFO") ELSE L
            IN /\ IF site = "brno" /\ first = 0
                  THEN \E stated \in BoardCounts(board) :
                          total_count' = parse_total_count(call.body, stated)
                  ELSE UNCHANGED total_count
               /\ board' = IF call.body = "ok" THEN Unserved ELSE board
               /\ \E more \in (IF rows = <<>> THEN {<<>>} ELSE {<<>>, <<NoDate>>}) :
                  IF \E i \in 1..Len(rows \o more) : parse_date_cz((rows \o more)[i]) = ValueError
                  THEN \* format_date_iso raises inside parse_list_page: main dies
                       /\ pc' = "crashed"
                       /\ exit_status' = 1
                       /\ L' = L1
                       /\ g' = [g EXCEPT !.served = IF call.body = "ok" THEN RequestedPage ELSE @]
                       /\ UNCHANGED <<items, idx, stats>>
                  ELSE IF rows = <<>>
                  THEN \* if not items: log(...); break
                       /\ L' = on_empty_page(L1)
                       /\ pc' = "summary"
                       /\ g' = [g EXCEPT !.served = IF call.body = "ok" THEN RequestedPage ELSE @,
                                         !.list_maint = @ \/ call.body = "maint"]
                       /\ UNCHANGED <<items, idx, stats, exit_status>>
                  ELSE /\ L' = log(L1, "INFO")
                       /\ items' = rows
                       /\ idx' = 1
                       /\ stats' = bump(stats, "pages_processed")
                       /\ g' = [g EXCEPT !.served = RequestedPage,
                                  !.skipped_newer = FALSE,
                                  !.listed_in_range = @ + Cardinality(
                                      {i \in 1..Len(rows) :
                                          InRange(parse_date_cz(rows[i]), from_date, to_date)})]
                       /\ pc' = "item"
                       /\ UNCHANGED exit_status
    /\ UNCHANGED <<env, ftp, save_dir, page, first, finished, files, fidx, final_name,
                   statements, logy>>

\* the notice the for loop over items is at
item_date == parse_date_cz(items[idx])
date_iso == format_date_iso(items[idx])

\* main with the files of a notice in hand: none, or the for loop over them
with_files(fs) ==
    /\ files' = fs
    /\ IF fs = <<>>
       THEN /\ L' = log_all(L, <<"INFO", "INFO">>)   \* "-> ..." and "(zadne soubory)"
            /\ idx' = idx + 1
            /\ fidx' = fidx
            /\ pc' = "item"
       ELSE /\ L' = log(L, "INFO")
            /\ idx' = idx
            /\ fidx' = 1
            /\ pc' = "file"

\* for item in items: the two date filters, then the notice itself
Item ==
    /\ pc = "item"
    /\ IF idx > Len(items)
       THEN /\ pc' = "page_end"
            /\ UNCHANGED <<finished, idx, files, fidx, stats, L, call, g>>
       ELSE IF is_newer(item_date, to_date)
       THEN \* continue
            /\ idx' = idx + 1
            /\ g' = [g EXCEPT !.skipped_newer = TRUE]
            /\ UNCHANGED <<pc, finished, files, fidx, stats, L, call>>
       ELSE IF is_older(item_date, from_date)
       THEN \* finished = True; break
            /\ L' = log(L, "INFO")
            /\ finished' = TRUE
            /\ pc' = "page_end"
            /\ UNCHANGED <<idx, files, fidx, stats, call, g>>
       ELSE /\ stats' = bump(stats, "items_processed")
            /\ UNCHANGED finished
            /\ IF site = "jmk"
               THEN \* random_pause(); scraper.get_page(detail_url)
                    /\ L' = log(L, "INFO")
                    /\ call' = NewCall("get_page", "detail")
                    /\ g' = fetched(paused([g EXCEPT !.touched = @ \cup {item_date}]))
                    /\ pc' = "detail_wait"
                    /\ UNCHANGED <<idx, files, fidx>>
               ELSE \* the row itself lists the files
                    /\ \E fs \in FileLists(MaxAttachments - g.attach_listed) :
                          /\ with_files(fs)
                          /\ g' = [g EXCEPT !.touched = @ \cup {item_date},
                                            !.attach_listed = @ + Len(fs)]
                    /\ UNCHANGED call
    /\ UNCHANGED <<env, scraper, ftp, board, save_dir, page, first, total_count, items, final_name,
                   statements, logy, exit_status>>

\* jmk, after get_page(detail_url) returned: the failure, parse_detail_page
DetailDone ==
    /\ pc = "detail_wait"
    /\ call.result \in {"ok", "fail"}
    /\ call' = NoCall
    /\ IF call.result = "fail"
       THEN \* log("Chyba nacitani detailu", "ERROR"); continue
            /\ L' = log(L, "ERROR")
            /\ idx' = idx + 1
            /\ pc' = "item"
            /\ g' = [g EXCEPT !.detail_failed = TRUE]
            /\ UNCHANGED <<files, fidx>>
       ELSE \E fs \in FileLists(MaxAttachments - g.attach_listed) :
               /\ files' = fs
               /\ g' = [g EXCEPT !.attach_listed = @ + Len(fs)]
               /\ IF fs = <<>>
                  THEN /\ L' = log(L, "INFO")
                       /\ idx' = idx + 1
                       /\ pc' = "item"
                       /\ UNCHANGED fidx
                  ELSE /\ fidx' = 1
                       /\ pc' = "file"
                       /\ UNCHANGED <<L, idx>>
    /\ UNCHANGED <<env, scraper, ftp, board, save_dir, page, first, total_count, finished, items,
                   final_name, stats, statements, logy, exit_status>>

\* for file_info in files: the name, the pause, scraper.download_file(...).
\* When the loop is through, files and final_name are not read again before
\* they are bound anew; they are cleared here.
File ==
    /\ pc = "file"
    /\ IF fidx > Len(files)
       THEN /\ idx' = idx + 1
            /\ pc' = "item"
            /\ final_name' = <<>>
            /\ files' = <<>>
            /\ fidx' = 0
            /\ UNCHANGED <<call, g>>
       ELSE /\ final_name' = get_available_filename(save_dir, new_name(date_iso, files[fidx]))
            /\ call' = NewCall("download_file", "file")
            /\ g' = fetched(paused(g))
            /\ pc' = "dl_wait"
            /\ UNCHANGED <<idx, files, fidx>>
    /\ UNCHANGED <<env, scraper, ftp, board, save_dir, page, first, total_count, finished, items,
                   stats, L, statements, logy, exit_status>>

\* the record added only when the publish went through
download_ok_record_if_published(st, lg, stmts, name, iso, up) ==
    LET st1 == bump(st, "files_downloaded")
        lg1 == log_all(log(lg, "INFO"), up.lv)
    IN [stats |-> IF up.ok THEN bump(st1, "files_uploaded") ELSE st1,
        L |-> IF up.ok THEN log(lg1, "INFO") ELSE log(lg1, "ERROR"),
        statements |-> IF up.ok THEN add_file(stmts, name, iso) ELSE stmts,
        published |-> 1]

\* the download counted only when the publish went through
download_ok_counted_if_published(st, lg, stmts, name, iso, up) ==
    LET lg1 == log_all(log(lg, "INFO"), up.lv)
    IN [stats |-> IF up.ok THEN bump(bump(st, "files_downloaded"), "files_uploaded") ELSE st,
        L |-> IF up.ok THEN log(lg1, "INFO") ELSE log(lg1, "ERROR"),
        statements |-> add_file(stmts, name, iso),
        published |-> 1]

\* the branch of main after download_file returned True (name: the final_name)
download_ok(st, lg, stmts, name, iso, up) ==
    LET st1 == bump(st, "files_downloaded")
        lg1 == log_all(log(lg, "INFO"), up.lv)
    IN [stats |-> IF up.ok THEN bump(st1, "files_uploaded") ELSE st1,
        L |-> IF up.ok THEN log(lg1, "INFO") ELSE log(lg1, "ERROR"),
        statements |-> add_file(stmts, name, iso),
        published |-> 1]

\* the failure counted under the wrong key
download_failed_miscounted(st, lg, stmts) ==
    [stats |-> bump(st, "files_downloaded"), L |-> log(lg, "ERROR"), statements |-> stmts,
     published |-> 0]

\* the branch of main after download_file returned False
download_failed(st, lg, stmts) ==
    [stats |-> bump(st, "files_failed"), L |-> log(lg, "ERROR"), statements |-> stmts,
     published |-> 0]

\* main after download_file returned
FileDone ==
    /\ pc = "dl_wait"
    /\ call.result \in {"ok", "fail"}
    /\ call' = NoCall
    /\ \E cfg \in (IF call.result = "ok" THEN environ(ftp) ELSE {ftp}) :
       \E outcome \in (IF call.result = "ok" THEN transfers(cfg, cfg.FTP_PATH) ELSE {"ok"}) :
          LET r == IF call.result = "ok"
                   THEN download_ok(stats, L, statements, final_name, date_iso,
                                    upload_file_to_ftp(cfg, outcome))
                   ELSE download_failed(stats, L, statements)
          IN /\ ftp' = cfg
             /\ stats' = r.stats
             /\ L' = r.L
             /\ statements' = r.statements
             /\ g' = [g EXCEPT !.publish_attempts = @ + r.published]
    /\ fidx' = fidx + 1
    /\ pc' = "file"
    /\ UNCHANGED <<env, scraper, board, save_dir, page, first, total_count, finished, items,
                   idx, files, final_name, logy, exit_status>>

\* the end of the list met only beyond the total
end_of_list_beyond(offset, total) == offset > total

\* if first >= total_count: "Dosazeno konce seznamu."; break
end_of_list(offset, total) == offset >= total

\* the end of the while body: the next page, or brno's end of the list
PageEnd ==
    /\ pc = "page_end"
    /\ IF finished
       THEN /\ pc' = "loop"
            /\ UNCHANGED <<page, first, L, g>>
       ELSE IF site = "jmk"
       THEN /\ page' = page + 1
            /\ g' = paused(g)
            /\ pc' = "loop"
            /\ UNCHANGED <<first, L>>
       ELSE /\ first' = first + PAGE_SIZE
            /\ UNCHANGED page
            /\ IF end_of_list(first', total_count)
               THEN \* log("Dosazeno konce seznamu."); break
                    /\ L' = log(L, "INFO")
                    /\ pc' = "summary"
                    /\ UNCHANGED g
               ELSE /\ g' = paused(g)
                    /\ pc' = "loop"
                    /\ UNCHANGED L
    /\ UNCHANGED <<env, scraper, ftp, board, save_dir, total_count, finished, items, idx, files, fidx,
                   final_name, stats, statements, logy, call, exit_status>>

\* the status sys.exit is called with
exit_code(has_error) == IF has_error THEN 1 ELSE 0

\* the import file written whether or not there are records
has_records_always(stmts) == TRUE

\* if sql_import.statements:
has_records(stmts) == stmts # <<>>

\* what became of an upload, from what upload_to_ftp returned and logged
upload_status(up) ==
    IF up.ok THEN "ok" ELSE IF up.lv = <<"WARN">> THEN "skipped" ELSE "failed"

\* main after the loop, to the end of the process:
\*   the six summary lines;
\*   if sql_import.statements: save and upload_sql_to_ftp, else the log line;
\*   sql_logy.save(get_log_text(), HAS_ERROR, ...) and its upload_sql_to_ftp;
\*   upload_log_to_ftp(LOG_FILE, ...), where FTP_LOGS_PATH is read;
\*   if HAS_ERROR: log(..., "ERROR"); sys.exit(1) else: log(...); sys.exit(0)
Finish ==
    /\ pc = "summary"
    /\ \E cfg \in environ(ftp), logs_path \in BOOLEAN :
       \E o0 \in (IF has_records(statements) THEN transfers(cfg, cfg.FTP_PATH) ELSE {"ok"}),
          o1 \in transfers(cfg, cfg.FTP_PATH),
          o2 \in transfers(cfg, logs_path \/ cfg.FTP_PATH) :
          LET L1 == log_all(L, <<"INFO", "INFO", "INFO", "INFO", "INFO", "INFO">>)
              L2 == IF has_records(statements)
                    THEN log_all(log(L1, "INFO"), upload_sql_to_ftp(cfg, o0).lv)
                    ELSE log(L1, "INFO")
              L3 == log_all(log(L2, "INFO"), upload_sql_to_ftp(cfg, o1).lv)
              L4 == log_all(L3, upload_log_to_ftp(cfg, logs_path, o2).lv)
          IN /\ ftp' = cfg
             /\ logy' = [saved |-> TRUE, has_error |-> L2.HAS_ERROR]
             /\ L' = log(L4, IF L4.HAS_ERROR THEN "ERROR" ELSE "INFO")
             /\ exit_status' = exit_code(L4.HAS_ERROR)
             /\ g' = [g EXCEPT
                        !.import_saved = has_records(statements),
                        !.import_upload = IF has_records(statements)
                                          THEN upload_status(upload_sql_to_ftp(cfg, o0))
                                          ELSE "none",
                        !.no_import_line = ~has_records(statements)]
    /\ pc' = "done"
    /\ UNCHANGED <<env, scraper, board, save_dir, loop_vars, stats, statements, call>>

Next ==
    \/ Start
    \/ LoopHead
    \/ PageAttempt
    \/ FileAttempt
    \/ ListDone
    \/ Item
    \/ DetailDone
    \/ File
    \/ FileDone
    \/ PageEnd
    \/ Finish

Spec == Init /\ [][Next]_vars

\* The script is one sequential process and every request carries a timeout
\* (timeout=60, timeout=120): whenever it has a next step, it takes one.
FairSpec == Spec /\ WF_vars(Next)

\* ------------------------------------------------------------ file names on their own
\* get_available_filename called on its own: on a directory that holds any
\* few names, for a desired name with one dot, with none, and with two.
MaxFiles == 2

DesiredNames == {<<"a", ".", "p">>, <<"a">>, <<"a", ".", "b", ".", "p">>}

\* name with "_k" put before its last dot, or at its end when it has no dot
Numbered(name, k) ==
    LET dots == {i \in 1..Len(name) : name[i] = "."}
        cut == IF dots = {} THEN Len(name) + 1
               ELSE CHOOSE i \in dots : \A j \in dots : j <= i
    IN SubSeq(name, 1, cut - 1) \o <<"_">> \o str(k) \o SubSeq(name, cut, Len(name))

\* the names a directory may hold: the desired ones and their numbered forms
ExistingNames == DesiredNames \cup {Numbered(d, k) : d \in DesiredNames, k \in 1..MaxFiles}

Directories == {d \in SUBSET ExistingNames : Cardinality(d) <= MaxFiles}

\* main is not running: its variables, the log apart, are at rest
AtRest ==
    /\ site \in {"jmk", "brno"}
    /\ ftp = Unread
    /\ from_date = parse_date_cz(FROM_DATE)
    /\ to_date = parse_date_cz(TO_DATE)
    /\ board = <<>>
    /\ page = 1
    /\ first = 0
    /\ total_count = 0
    /\ finished = FALSE
    /\ items = <<>>
    /\ idx = 0
    /\ stats = [pages_processed |-> 0, items_processed |-> 0, files_downloaded |-> 0,
                files_uploaded |-> 0, files_failed |-> 0]
    /\ statements = <<>>
    /\ logy = [saved |-> FALSE, has_error |-> FALSE]
    /\ scraper = NewScraper
    /\ call = NoCall
    /\ exit_status = -1
    /\ g = [served |-> 0, listed_in_range |-> 0, attach_listed |-> 0, touched |-> {},
            list_failed |-> FALSE, list_maint |-> FALSE, detail_failed |-> FALSE,
            last_op |-> "none", unpaused |-> FALSE, import_saved |-> FALSE,
            import_upload |-> "none", no_import_line |-> FALSE,
            skipped_newer |-> FALSE, publish_attempts |-> 0]

\* main is not running, nothing is logged
Idle == AtRest /\ L = [error_lines |-> FALSE, HAS_ERROR |-> FALSE]

NamesInit ==
    /\ Idle
    /\ save_dir \in Directories
    /\ files \in {<<d>> : d \in DesiredNames}
    /\ fidx = 1
    /\ final_name = <<>>
    /\ pc = "resolve"

\* final_name = get_available_filename(SAVE_DIR, desired), called or called again
Resolve ==
    /\ pc \in {"resolve", "resolved"}
    /\ final_name' = get_available_filename(save_dir, files[fidx])
    /\ pc' = "resolved"
    /\ UNCHANGED <<env, scraper, ftp, board, save_dir, page, first, total_count, finished, items,
                   idx, files, fidx, stats, L, statements, logy, call, exit_status, g>>

\* a file is written under the name resolved; the same name is then desired again
Create ==
    /\ pc = "resolved"
    /\ Cardinality(save_dir) <= MaxFiles
    /\ save_dir' = save_dir \cup {final_name}
    /\ final_name' = <<>>
    /\ pc' = "resolve"
    /\ UNCHANGED <<env, scraper, ftp, board, page, first, total_count, finished, items,
                   idx, files, fidx, stats, L, statements, logy, call, exit_status, g>>

NamesNext ==
    \/ Resolve
    \/ Create

NamesSpec == NamesInit /\ [][NamesNext]_vars

\* ------------------------------------------------------------ sanitize_filename on its own
\* sanitize_filename called on every name of up to MaxLen characters.
MaxLen == 3

OriginalNames == SeqsOf(AllChars, 0, MaxLen)

SanitizeInit ==
    /\ Idle
    /\ save_dir = {}
    /\ files \in {<<n>> : n \in OriginalNames}
    /\ fidx = 1
    /\ final_name = <<>>
    /\ pc = "sanitize"

\* sanitized_name = sanitize_filename(original_name)
Sanitize ==
    /\ pc = "sanitize"
    /\ final_name' = sanitize_filename(files[fidx])
    /\ pc' = "sanitized"
    /\ UNCHANGED <<env, scraper, ftp, board, save_dir, page, first, total_count, finished, items,
                   idx, files, fidx, stats, L, statements, logy, call, exit_status, g>>

\* sanitize_filename applied to its own result
SanitizeAgain ==
    /\ pc = "sanitized"
    /\ final_name' = sanitize_filename(final_name)
    /\ pc' = "sanitized_twice"
    /\ UNCHANGED <<env, scraper, ftp, board, save_dir, page, first, total_count, finished, items,
                   idx, files, fidx, stats, L, statements, logy, call, exit_status, g>>

SanitizeNext ==
    \/ Sanitize
    \/ SanitizeAgain

SanitizeSpec == SanitizeInit /\ [][SanitizeNext]_vars

\* ------------------------------------------------------------ log on its own
\* log called up to MaxLines times, at any levels, with LOG_LINES kept in full.
MaxLines == 4

LogInit ==
    /\ AtRest
    /\ L = [LOG_LINES |-> <<>>, HAS_ERROR |-> FALSE]
    /\ save_dir = {}
    /\ files = <<>>
    /\ fidx = 0
    /\ final_name = <<>>
    /\ pc = "logging"

\* log(msg, level)
Log ==
    /\ pc = "logging"
    /\ Len(L.LOG_LINES) < MaxLines
    /\ \E level \in Levels : L' = log_append(L, level)
    /\ UNCHANGED <<env, scraper, ftp, board, save_dir, pc, loop_vars, stats, statements, logy, call,
                   exit_status, g>>

LogNext == Log

LogSpec == LogInit /\ [][LogNext]_vars

\* ------------------------------------------------------------ the run after a run
\* A run on the directory an earlier run left: SAVE_DIR holds the file that
\* run saved for the attachment of a notice of 02.05.2024, alone or with the
\* one it numbered _1 beside it.
Saved == new_name(format_date_iso(FROM_DATE), <<"a^", ".", "p">>)

LeftBehind == {{Saved}, {Saved, Numbered(Saved, 1)}}

RerunInit == Boot /\ save_dir \in LeftBehind

RerunSpec == RerunInit /\ [][Next]_vars

\* ------------------------------------------------------------ properties
\* rows of the pages the site has not served that lie in [from_date, to_date]
UnservedInRange ==
    {i \in 1..Len(Rows(board)) : InRange(parse_date_cz(Rows(board)[i]), from_date, to_date)}

\* the run ran to sys.exit
Ended == pc = "done"

\* every list request was answered, and with the list page
ListFetchesSucceeded == ~g.list_failed /\ ~g.list_maint

\* no notice in range is left on a page never requested, each one listed was
\* counted in items_processed, every attachment listed was attempted
TraversalComplete ==
    /\ UnservedInRange = {}
    /\ stats.items_processed = g.listed_in_range
    /\ stats.files_downloaded + stats.files_failed = g.attach_listed

\* brno: the first page states the total
CountStated == site = "brno" => total_count > 0

\* C1: on a board sorted descending whose list requests all succeed, when the
\* run has ended every notice in [from_date, to_date] has been processed: none
\* is left on a page never requested, each one listed was counted in
\* items_processed, and every attachment listed for them was attempted.
C1_AllInRangeProcessed == (Ended /\ ListFetchesSucceeded) => TraversalComplete

\* what stays as it is once the traversal is over: the position in the page,
\* the pages served, the counters, the records, the files, the fetcher
TraversalFrozen ==
    /\ UNCHANGED <<idx, items, board, page, first, stats, statements, save_dir, call, finished>>
    /\ g'.touched = g.touched
    /\ pc' \notin {"item", "list_wait", "detail_wait", "file", "dl_wait"}

\* the end-to-end page: 03.05., 02.05., 01.05.2024 with from = to = 02.05.2024
ScenarioPage == <<<<3, 5, 2024>>, <<2, 5, 2024>>, <<1, 5, 2024>>>>

\* C2: once the first notice older than from_date is met (finished is set),
\* nothing is inspected, fetched or recorded any more; on the page dated
\* 03.05., 02.05., 01.05. with from = to = 02.05. the loop halts at the third
\* row having processed one notice only.
C2_BoundaryIsTerminal ==
    /\ [][finished => TraversalFrozen]_vars
    /\ []((finished /\ items = ScenarioPage /\ g.served = 1) =>
             (idx = 3 /\ stats.items_processed = 1 /\ g.touched = {parse_date_cz(items[2])}))

C2_Witness ==
    /\ Ended /\ finished /\ items = ScenarioPage /\ g.served = 1
    /\ idx = 3 /\ Len(statements) = 1

\* the for loop stands at a notice dated after to_date
AtNewer == pc = "item" /\ idx <= Len(items) /\ parse_date_cz(items[idx]) > to_date

\* the skip: on to the next row of the same page, nothing counted or fetched
SkipStep ==
    /\ pc' = "item" /\ idx' = idx + 1 /\ items' = items
    /\ ~finished' /\ stats' = stats /\ call' = call /\ statements' = statements

\* a page with a skipped notice ended without reaching the boundary
SkippedPageEnded == pc = "page_end" /\ ~finished /\ g.skipped_newer

CountReached == site = "brno" /\ first + PAGE_SIZE >= total_count

InRangeIso ==
    {format_date_iso(t) : t \in {r \in RowDates :
        InRange(parse_date_cz(r), parse_date_cz(FROM_DATE), parse_date_cz(TO_DATE))}}

\* C4: whatever was touched (detail fetch, download, counters, records) belongs
\* to a notice dated in [from_date, to_date].
C4_OnlyInRangeEmitted ==
    /\ \A d \in g.touched : InRange(d, from_date, to_date)
    /\ pc \in {"detail_wait", "file", "dl_wait"} => InRange(item_date, from_date, to_date)
    /\ stats.items_processed <= g.listed_in_range
    /\ stats.items_processed = 0 =>
          stats.files_downloaded + stats.files_failed + stats.files_uploaded = 0
    /\ \A i \in 1..Len(statements) : SubSeq(statements[i].datum_stazeni, 1, 10) \in InRangeIso

C4_Witness ==
    /\ Ended /\ Len(items) = 3 /\ g.skipped_newer /\ finished
    /\ stats.items_processed = 1 /\ stats.files_downloaded = 2

\* what every call of the three functions keeps: at most MAX_RETRIES + 1
\* attempts; a call still running or returned with success logged one WARN and
\* slept once per attempt that failed before
RetryBudgetKept ==
    /\ call.attempts <= MAX_RETRIES + 1
    /\ call.retry <= MAX_RETRIES
    /\ call.sleeps = call.retry
    /\ call.result \in {"none", "pending", "ok", "fail"}
    /\ call.result = "pending" => (call.attempts = call.retry /\ call.warns = call.retry
                                    /\ call.errors = 0)
    /\ call.result = "ok" => (call.attempts = call.retry + 1 /\ call.warns = call.retry
                               /\ call.errors = 0)

\* the failure after the budget: MAX_RETRIES retries, one WARN each, one ERROR
Exhausted ==
    /\ call.attempts = MAX_RETRIES + 1
    /\ call.retry = MAX_RETRIES
    /\ call.warns = MAX_RETRIES
    /\ call.errors = 1

\* C5 as stated: every failed attempt with retries left is followed by one
\* WARN, one sleep and a retry, so a call returns failure only after
\* MAX_RETRIES retries (MAX_RETRIES + 1 attempts) and exactly one ERROR.
C5_FailureOnlyAfterRetries ==
    /\ RetryBudgetKept
    /\ call.result = "fail" => Exhausted

\* download_file of jmk returned False at once on "dokument ... neni k dispozici"
SoftFailure ==
    /\ site = "jmk" /\ call.fn = "download_file" /\ call.soft
    /\ call.attempts = call.retry + 1
    /\ call.warns = call.retry + 1
    /\ call.errors = 0

\* C5 amended: as C5 for every attempt that raises; the one failure outside
\* the retry policy is download_file of jmk on a "document not available"
\* answer, which logs one WARN and returns False without sleeping, retrying
\* or logging an ERROR.
C5_FailureAfterRetriesOrSoft ==
    /\ RetryBudgetKept
    /\ call.result = "fail" => IF call.soft THEN SoftFailure ELSE Exhausted

C5_Witness ==
    /\ call.fn = "post_page" /\ call.result = "fail" /\ ~call.soft
    /\ call.attempts = MAX_RETRIES + 1 /\ call.errors = 1 /\ pc = "list_wait"

\* get_page(detail_url) came back with None
DetailFailed == pc = "detail_wait" /\ call.result = "fail"

\* C6: when the detail fetch has exhausted its retries an ERROR is logged, no
\* counter moves and no record is added, the loop goes on with the next
\* notice (so that every notice in range is still processed at the end), and
\* the exit status is not 0.
C6_DetailFailureIsSkipped ==
    /\ [][DetailFailed =>
            /\ L'.error_lines /\ L'.HAS_ERROR
            /\ stats' = stats /\ statements' = statements
            /\ pc' = "item" /\ idx' = idx + 1 /\ items' = items /\ board' = board
            /\ ~finished']_vars
    /\ []((g.detail_failed /\ Ended /\ ~g.list_failed) => TraversalComplete)
    /\ []((g.detail_failed /\ exit_status # -1) => exit_status # 0)

C6_Witness ==
    /\ Ended /\ g.detail_failed /\ exit_status = 1
    /\ stats.items_processed = 2 /\ stats.pages_processed = 2 /\ stats.files_downloaded = 1

\* download_file came back with False
DownloadFailed == pc = "dl_wait" /\ call.result = "fail"

\* C7: a failed download (soft or after the retries) adds one to files_failed,
\* leaves files_downloaded, files_uploaded and the records alone, attempts no
\* publish, and the loop goes on with the next attachment; at the end of such
\* a run every notice in range has still been processed.
C7_DownloadFailureCounted ==
    /\ [][DownloadFailed =>
            /\ stats' = [stats EXCEPT !.files_failed = @ + 1]
            /\ statements' = statements
            /\ g'.publish_attempts = g.publish_attempts
            /\ pc' = "file" /\ fidx' = fidx + 1 /\ files' = files
            /\ idx' = idx /\ items' = items /\ board' = board /\ ~finished']_vars
    /\ []((stats.files_failed > 0 /\ Ended /\ ListFetchesSucceeded /\ CountStated)
             => TraversalComplete)

C7_Witness ==
    /\ Ended /\ stats.files_failed = 1 /\ stats.files_downloaded = 1
    /\ Len(statements) = 1 /\ g.publish_attempts = 1

\* download_file came back with True
DownloadSucceeded == pc = "dl_wait" /\ call.result = "ok"

\* C8: a successful download adds one to files_downloaded, attempts the
\* publish, and appends exactly one record that carries final_name, whatever
\* the publish returned; the records are always as many as files_downloaded.
C8_OneRecordPerDownload ==
    /\ [][DownloadSucceeded =>
            /\ stats'.files_downloaded = stats.files_downloaded + 1
            /\ stats'.files_failed = stats.files_failed
            /\ g'.publish_attempts = g.publish_attempts + 1
            /\ Len(statements') = Len(statements) + 1
            /\ SubSeq(statements', 1, Len(statements)) = statements
            /\ statements'[Len(statements')].nazev_souboru = final_name
            /\ final_name \in save_dir]_vars
    /\ [](Len(statements) = stats.files_downloaded)

C8_Witness ==
    /\ Ended /\ Len(statements) = 2 /\ stats.files_downloaded = 2
    /\ stats.files_uploaded = 1 /\ g.publish_attempts = 2

\* C9: the process exits with 0 exactly when no line of level ERROR was logged.
C9_ExitZeroIffNoErrorLine ==
    exit_status # -1 => (exit_status = 0 <=> ~L.error_lines)

\* every fetch and every download of the run succeeded
NothingFailed == ~g.list_failed /\ ~g.detail_failed /\ stats.files_failed = 0

\* FTP_HOST, FTP_USER or FTP_PASS is missing: no upload of the run is configured
NoCredentials == ftp.read /\ ~ftp.cred

\* C10: with the publisher unconfigured (here: the credentials missing) and
\* every fetch and download successful, the run logs no ERROR line and exits
\* with 0.
C10_UnconfiguredIsSoftSkip ==
    (Ended /\ NoCredentials /\ NothingFailed) => (~L.error_lines /\ exit_status = 0)

\* C11: in both sites a page fetch (get_page / post_page) never hands a body
\* that carries a maintenance-page marker to its caller as a success: such a
\* response is a failed attempt, retried within the budget.
C11_MaintenanceBodyNeverReturned ==
    (call.fn \in {"get_page", "post_page"} /\ call.result = "ok") => call.body # "maint"

\* C12: in both sites download_file treats a 200 text/html response without
\* Content-Disposition whose body says the document is not available as a
\* terminal soft failure: no retry follows it, a WARN is logged, no file is
\* written and False is returned; so it never returns True on such a body.
C12_WithdrawnIsSoftFailure ==
    /\ (call.fn = "download_file" /\ call.result = "ok") => call.body # "gone"
    /\ call.soft => (call.result = "fail" /\ call.warns = call.retry + 1 /\ call.errors = 0)

\* brno: the first page was served and stated no total
CountAbsent == site = "brno" /\ g.served >= 1 /\ total_count = 0

\* The Brno run whose first page states the total accurately leaves no notice
\* in range unprocessed (an invariant of Spec).
CountStatedRunComplete ==
    (Ended /\ ListFetchesSucceeded /\ site = "brno" /\ total_count > 0) => TraversalComplete

\* C13: the Brno total is a pure optimisation: a run whose first page states
\* no total processes the same notices as the run over the same list pages
\* whose first page states it accurately.  That run leaves no notice in range
\* unprocessed (CountStatedRunComplete), so neither does the run without it.
C13_CountAbsentSameNotices ==
    (Ended /\ ListFetchesSucceeded /\ CountAbsent) => TraversalComplete

\* C14: a row whose date text matches dd.mm.yyyy and is no calendar date
\* (31.02.2024) is dropped alone: no exception escapes parse_list_page, so
\* main never dies on a list page, and the process exits only from the end
\* of main.
C14_UnparsableDateRowDropped ==
    /\ pc # "crashed"
    /\ exit_status # -1 => Ended

\* get_list_page came back with None: the retries of the list request are spent
ListFetchFailed == pc = "list_wait" /\ call.result = "fail"

\* get_list_page came back with a page that holds no row
ListPageEmpty ==
    pc = "list_wait" /\ call.result = "ok" /\ (call.body # "ok" \/ ServedRows = <<>>)

\* C15: an empty list page and a list fetch that failed after its retries both
\* end the traversal, with no further list request; the failure logs an ERROR
\* and sets the error flag, the empty page logs no ERROR and leaves the flag as
\* it was; after either, the one step the run can take is the end of main,
\* which writes the summary and the log record (Finish has no guard but
\* pc = "summary").
C15_EmptyAndFailedPageStop ==
    /\ [][ListFetchFailed => (pc' = "summary" /\ L'.error_lines /\ L'.HAS_ERROR)]_vars
    /\ [][ListPageEmpty => (pc' = "summary" /\ L' = L)]_vars
    /\ [][pc = "summary" => (pc' = "done" /\ logy'.saved /\ exit_status' \in {0, 1}
                               /\ board' = board /\ call' = call)]_vars
    /\ [][pc = "done" => FALSE]_vars

C15_Witness ==
    /\ Ended /\ g.list_failed /\ stats.pages_processed = 1 /\ board # <<>>
    /\ L.HAS_ERROR /\ logy = [saved |-> TRUE, has_error |-> TRUE] /\ exit_status = 1

\* The process ends in every run: by sys.exit at the end of main, or by the
\* exception that leaves parse_list_page (a property of FairSpec).
ProcessExits == <>(exit_status # -1)

\* C16: every run terminates: whatever the fetches, downloads and publishes
\* do, the main loop ends after finitely many list requests and the run reaches
\* the end of main: the summary counters, the log record, the exit.
C16_RunReachesEndOfMain == <>(Ended /\ logy.saved /\ exit_status \in {0, 1})

\* get_available_filename has returned final_name for files[fidx] in save_dir
Resolved == pc = "resolved"

\* C17: get_available_filename never returns a name present in the directory
\* at the time of the call, and its result depends on the desired name and the
\* existing names only: called again on the same directory for the same name,
\* in either script, it returns the same name.
C17_AvailableNameIsFree ==
    /\ [](Resolved => final_name \notin save_dir)
    /\ [][(Resolved /\ pc' = "resolved") => final_name' = final_name]_vars
    /\ [](Resolved => \A d \in DesiredNames :
             files[fidx] = d => final_name = get_available_filename(save_dir, d))

C17_Witness ==
    /\ Resolved
    /\ {files[fidx], Numbered(files[fidx], 1)} \subseteq save_dir
    /\ final_name = Numbered(files[fidx], 2)

\* C18: get_available_filename returns the desired name unchanged when it is
\* free, and otherwise the desired name with _k before its last extension,
\* for the smallest k >= 1 whose name is not in the directory.
C18_SmallestFreeSuffix ==
    Resolved =>
        LET desired == files[fidx]
        IN IF desired \notin save_dir THEN final_name = desired
           ELSE \E k \in 1..Cardinality(save_dir) :
                   /\ final_name = Numbered(desired, k)
                   /\ Numbered(desired, k) \notin save_dir
                   /\ \A j \in 1..(k - 1) : Numbered(desired, j) \in save_dir

\* the directory holds a.b.p alone and a.b.p is desired: a.b_1.p
C18_Witness ==
    /\ Resolved
    /\ files[fidx] = <<"a", ".", "b", ".", "p">>
    /\ save_dir = {<<"a", ".", "b", ".", "p">>}
    /\ final_name = <<"a", ".", "b", "_", "1", ".", "p">>

\* main resolves the name of the next attachment
Resolving == pc = "file" /\ pc' = "dl_wait"

\* C19: prior downloads are never overwritten: a download writes only to the
\* path its name was resolved to, and that path did not exist when the name was
\* resolved; so every file in the directory before an attachment is handled,
\* from an earlier run or from another attachment of this run, stays as it is.
C19_PriorFilesKept ==
    /\ [][Resolving => final_name' \notin save_dir]_vars
    /\ [][pc = "dl_wait" => final_name' = final_name]_vars
    /\ [][save_dir \subseteq save_dir']_vars
    /\ [][save_dir' # save_dir => (pc = "dl_wait" /\ save_dir' = save_dir \cup {final_name})]_vars

\* on a directory with the earlier file and its _1, two attachments are saved as _2 and _3
C19_Witness ==
    /\ Ended
    /\ save_dir = {Saved, Numbered(Saved, 1), Numbered(Saved, 2), Numbered(Saved, 3)}
    /\ stats.files_downloaded = 2

\* the characters of [A-Za-z0-9_.-]
Allowed == Plain \cup {"."}

\* C20: for every input, the output of sanitize_filename holds characters of
\* [A-Za-z0-9_.-] only: the extension, the part after the last dot, is
\* sanitized like the name, and only the dot is kept.
C20_OnlyAllowedCharacters ==
    pc = "sanitized" => \A i \in 1..Len(final_name) : final_name[i] \in Allowed

\* C21: the error indicator written into the log record at the end of the run
\* is true exactly when a line of level ERROR occurred during the run, and
\* it agrees with the exit status, also when a publish step that runs after
\* the log record was built logs the ERROR.
C21_LogRecordFlagMatchesRun ==
    Ended => /\ logy.saved
             /\ logy.has_error <=> L.error_lines
             /\ logy.has_error <=> exit_status = 1

\* C22: between any two fetches main issues (list page, detail page,
\* attachment; the retries inside a fetch apart) random_pause is executed:
\* no fetch is issued right after another one with no pause between them.
C22_PauseBetweenFetches == ~g.unpaused

\* an attachment is being fetched, after the list page (and for jmk the detail page)
C22_Witness ==
    /\ pc = "dl_wait" /\ call.result = "pending" /\ fidx = 2
    /\ g.last_op = "fetch" /\ ~g.unpaused

\* C23: sanitize_filename is idempotent: applied to its own result it
\* returns that result, for every input.
C23_SanitizeIdempotent ==
    /\ [][pc = "sanitized" => final_name' = final_name]_vars
    /\ [](pc = "sanitized_twice" => final_name = sanitize_filename(files[fidx]))

\* "a^ ." gives "a_." the first time, and the second
C23_Witness ==
    /\ pc = "sanitized_twice"
    /\ files[fidx] = <<"a^", " ", ".">>
    /\ final_name = <<"a", "_", ".">>

\* C24: at the end of the run the import file is written, and its upload
\* made, exactly when the run produced at least one import record; with no
\* record no import file is written and the run logs that none was
\* produced; the log record is written in both cases.
C24_ImportWrittenIffRecords ==
    Ended =>
        /\ g.import_saved <=> statements # <<>>
        /\ g.import_upload # "none" <=> statements # <<>>
        /\ g.no_import_line <=> statements = <<>>
        /\ logy.saved

C24_Witness ==
    /\ Ended /\ Len(statements) = 1
    /\ g.import_saved /\ g.import_upload = "ok" /\ ~g.no_import_line /\ logy.saved

\* C25: the datum_stazeni of each import record is the time at which the
\* attachment was downloaded in this run, not a value of the notice alone.
\* The downloads of a run are at least PAUSE_MIN seconds apart (random_pause
\* comes before each), and datum_stazeni is written to the second: were it the
\* download time, no two records of a run would carry the same one.
C25_TimestampIsDownloadTime ==
    PAUSE_MIN >= 1 =>
        \A i, j \in 1..Len(statements) :
            i # j => statements[i].datum_stazeni # statements[j].datum_stazeni

\* C26: in download_file a 200 text/html response with no Content-Disposition
\* and a maintenance marker in its body is a transient failure: the attempt
\* writes nothing to the destination; it is followed by a retry (WARN, sleep)
\* while the budget lasts, and by the failure of the call (ERROR) when it is
\* spent; and a call that failed adds no import record.  So a download that
\* gets such a page at every attempt fails after MAX_RETRIES + 1 attempts
\* with no file and no record.
C26_MaintenanceDownloadIsTransient ==
    /\ [][FileAttemptWith("maint") =>
            /\ save_dir' = save_dir
            /\ call'.attempts = call.attempts + 1
            /\ IF call.retry < MAX_RETRIES
               THEN /\ call'.result = "pending" /\ call'.retry = call.retry + 1
                    /\ call'.warns = call.warns + 1 /\ call'.sleeps = call.sleeps + 1
               ELSE /\ call'.result = "fail" /\ call'.errors = 1 /\ ~call'.soft
                    /\ call'.attempts = MAX_RETRIES + 1
                    /\ L'.error_lines]_vars
    /\ [][(pc = "dl_wait" /\ call.result = "fail") =>
              (statements' = statements /\ stats'.files_failed = stats.files_failed + 1)]_vars

\* every attempt of the download failed without opening the file: the call
\* has failed after MAX_RETRIES + 1 attempts and the destination is not there
C26_Witness ==
    /\ pc = "dl_wait" /\ call.result = "fail" /\ ~call.soft
    /\ call.attempts = MAX_RETRIES + 1 /\ call.warns = MAX_RETRIES
    /\ final_name \notin save_dir /\ statements = <<>>

\* L, as main's model keeps it, is the log in full seen through log_view:
\* log on the one is log_append on the other (a property of LogSpec).
LogViewKept == [][\E level \in Levels : log_view(L') = log(log_view(L), level)]_vars

\* C27: the log and the error flag only accumulate: every log call appends
\* one line to LOG_LINES and leaves the earlier lines as they are; once
\* HAS_ERROR is true it stays true; and HAS_ERROR is true exactly when some
\* line logged so far has level ERROR.
C27_LogOnlyAccumulates ==
    /\ [][\E level \in Levels : L'.LOG_LINES = Append(L.LOG_LINES, level)]_vars
    /\ [][L.HAS_ERROR => L'.HAS_ERROR]_vars
    /\ [](L.HAS_ERROR <=> \E i \in 1..Len(L.LOG_LINES) : L.LOG_LINES[i] = "ERROR")

\* an ERROR line, then two lines of other levels: the flag has stayed
C27_Witness ==
    /\ L.LOG_LINES = <<"INFO", "ERROR", "WARN", "INFO">>
    /\ L.HAS_ERROR

\* C28: within one run the local filenames (nazev_souboru) of the import
\* records are pairwise distinct, also when several attachments, of one
\* notice or of several, resolve to the same desired name.
C28_RecordNamesDistinct ==
    \A i, j \in 1..Len(statements) :
        i # j => statements[i].nazev_souboru # statements[j].nazev_souboru

\* two attachments with the same desired name, both downloaded:
\* the second record carries the name numbered _1
C28_Witness ==
    /\ Len(statements) = 2
    /\ statements[1].nazev_souboru = Saved
    /\ statements[2].nazev_souboru = Numbered(Saved, 1)
    /\ statements[1].datum_stazeni = statements[2].datum_stazeni

\* the attachments whose download has finished, as the counters tell it
Settled(st) == st.files_downloaded + st.files_failed

\* a step in which download_file's result comes back to main
DownloadFinishes == pc = "dl_wait" /\ pc' = "file"

\* C29: in every state of the main loop files_uploaded <= files_downloaded;
\* files_downloaded + files_failed is the number of attachments whose
\* download has been attempted and has finished (it is 0 at the start, grows
\* by one in each step in which a download finishes, and stays in every
\* other step); and no counter ever decreases.
C29_CountersConsistent ==
    /\ [](stats.files_uploaded <= stats.files_downloaded)
    /\ [](pc = "start" => Settled(stats) = 0)
    /\ [][Settled(stats') = Settled(stats) + (IF DownloadFinishes THEN 1 ELSE 0)]_vars
    /\ [][\A key \in DOMAIN stats : stats'[key] >= stats[key]]_vars

\* two downloads have finished: one succeeded and was not published, one failed
C29_Witness ==
    /\ pc = "file"
    /\ stats.files_downloaded = 1
    /\ stats.files_uploaded = 0
    /\ stats.files_failed = 1

\* C30: every file a run creates in the download directory belongs to a
\* successful download and has an import record: when download_file has
\* returned failure, no file is left at the resolved destination path, and
\* at the end of the run every file of the directory has its record.
C30_NoFileWithoutRecord ==
    /\ (pc = "dl_wait" /\ call.result = "fail") => final_name \notin save_dir
    /\ Ended => \A name \in save_dir :
                    \E i \in 1..Len(statements) : statements[i].nazev_souboru = name

\* brno: a list request is out for the offset first
ListRequested == site = "brno" /\ pc = "list_wait"

\* brno: a page has been scanned to its last row without meeting the boundary
PageScanned == site = "brno" /\ pc = "page_end" /\ ~finished

\* brno: the total the first page states is the number of rows of the board
\* (the pages served and the pages not yet served, PAGE_SIZE rows each)
CountAccurate ==
    site = "brno" /\ g.served >= 1 /\ total_count = (g.served + Len(board)) * PAGE_SIZE

\* the offset starts at 0 and moves only by PAGE_SIZE, at the end of a page
\* scanned to its last row
OffsetAdvances ==
    /\ [](pc = "start" => first = 0)
    /\ [][first' # first => (PageScanned /\ first' = first + PAGE_SIZE)]_vars

\* with an accurate count no page below the count is left out: after a page
\* scanned to its last row the next page is requested (by POST) while the
\* advanced offset is below the count, and once the offset has reached the
\* count no page of the board is unserved
PagesBelowCountRequested ==
    /\ [][(PageScanned /\ CountAccurate /\ first + PAGE_SIZE < total_count) =>
             (pc' = "loop" /\ ~finished')]_vars
    /\ [][(site = "brno" /\ pc = "loop" /\ ~finished) =>
             (pc' = "list_wait" /\ call'.fn = list_fn)]_vars
    /\ []((CountAccurate /\ first >= total_count) => board = <<>>)

\* C31 as stated: the Brno offset starts at 0 and advances only by PAGE_SIZE
\* after a fully scanned page; no list page is requested with an offset >=
\* total_count, the count parsed from the first page (whenever a requested
\* page comes back, its offset is below the count as parsed by then); with an
\* accurate count every page below the count is requested unless the
\* traversal stopped earlier.
C31_NoRequestAtOrBeyondCount ==
    /\ OffsetAdvances
    /\ [][(ListRequested /\ call.result = "ok") => first < total_count']_vars
    /\ PagesBelowCountRequested

\* C31 amended: as C31, but it is the list pages after the first that are
\* never requested with an offset >= total_count; the first page is
\* requested at offset 0 before any count is known, also when the count it
\* states turns out to be 0.
C31_NoLaterRequestAtOrBeyondCount ==
    /\ OffsetAdvances
    /\ []((ListRequested /\ first > 0) => first < total_count)
    /\ PagesBelowCountRequested

\* the third page of a board of three pages is requested, the count accurate
C31_Witness ==
    /\ ListRequested
    /\ call.fn = "post_page"
    /\ first = 2 * PAGE_SIZE
    /\ total_count = 3 * PAGE_SIZE
    /\ CountAccurate

\* jmk: a list request is out for the page numbered page
ListPageRequested == site = "jmk" /\ pc = "list_wait"

\* C32: in the JMK scraper the list pages are requested in the order 1, 2,
\* 3, ... (each request is for the page after the last one fetched), page 1
\* by GET and every later page by POST; the POST for page k carries the
\* __VIEWSTATE / __VIEWSTATEGENERATOR most recently extracted from a fetched
\* list page (the __VIEWSTATE of page k - 1, the __VIEWSTATEGENERATOR of
\* page 1, the last page that rendered one); and the stored view state
\* changes only when a list page comes back, never on a detail fetch or a
\* download.
C32_ViewStateFollowsListPages ==
    /\ [](pc = "start" => (page = 1 /\ scraper = NewScraper))
    /\ [][page' # page => page' = page + 1]_vars
    /\ [](ListPageRequested => page = g.served + 1)
    /\ [](ListPageRequested =>
             call.fn = IF page = 1 THEN "get_page" ELSE "post_page")
    /\ []((ListPageRequested /\ page > 1) =>
             call.data = [EVENTARGUMENT |-> page,
                          VIEWSTATE |-> HiddenFields(page - 1).viewstate,
                          VIEWSTATEGENERATOR |-> HiddenFields(1).viewstate_generator])
    /\ [][scraper' # scraper => (ListPageRequested /\ call.result = "ok")]_vars

\* the POST for page 3 is out, after a detail fetch and a download on the way
C32_Witness ==
    /\ ListPageRequested
    /\ page = 3
    /\ call.fn = "post_page"
    /\ call.data = [EVENTARGUMENT |-> 3, VIEWSTATE |-> 2, VIEWSTATEGENERATOR |-> 1]
    /\ stats.files_downloaded >= 1
====
